---- MODULE Spec2Model ----
(***************************************************************************)
(* ClaudeHopper: the batch indexer (seed), the metadata extractors and     *)
(* merger and the retrieval tools, modelled from the TypeScript sources.   *)
(*                                                                         *)
(*   Spec       the indexer: seed() / processDocuments() over a small      *)
(*              file tree, run up to MaxRuns times                         *)
(*   SpecMerge  extractMetadata / mergeMetadata over all inputs of the     *)
(*              three extractors on two fields                             *)
(*   SpecQuery  the query server: connectToLanceDB, then the four          *)
(*              retrieval tools serving one request after another          *)
(*   SpecExtract  extractMetadata on file paths, title-block texts and     *)
(*              model answers, with strings as sequences of atoms          *)
(*   SpecFair   Spec with the steps of a started run weakly fair           *)
(*   SpecLoad   EnhancedPDFLoader.load and shouldSplitPdf on one PDF file  *)
(*   SpecServe  two execute calls of the retrieval tools interleaved       *)
(***************************************************************************)
EXTENDS Integers, Sequences, FiniteSets, TLC

\* ------------------------------------------------------------------ bounds
MaxRuns == 2

\* ----------------------------------------------------------- small domains
\* The files directory, in the order the directory loader visits it.
PathOrder == <<"/in/Drawings/S-46-1001.pdf", "/in/Drawings/S-50-150.pdf">>
Paths == {PathOrder[i] : i \in DOMAIN PathOrder}
\* Possible byte contents of a file; NoFile: the path does not exist.
Bytes == {"bytesX", "bytesY"}
NoFile == "ENOENT"

Range(s) == {s[i] : i \in DOMAIN s}

\* crypto.createHash('sha256').update(fileContent).digest('hex'):
\* a function of the bytes alone, distinct for distinct bytes.
Sha256Hex(b) == <<"sha256", b>>

\* Pages PDFLoader yields for a file with these bytes (one Document per page).
PageCount(b) == IF b = "bytesY" THEN 2 ELSE 1

\* Steps of processDocuments' loop body that can throw.
FailModes == {"none", "hash", "metadata", "overview"}

VARIABLES
  fs,             \* [Paths -> Bytes \cup {NoFile}]: the files directory
  catalogExists,  \* the catalog table exists in the database
  catalog,        \* rows of the catalog table
  chunksExists,   \* the chunks table exists in the database
  chunks,         \* rows of the chunks table
  pc,             \* position of seed(): idle, process, catalog, chunks, done, aborted
  overwrite,      \* --overwrite of the current run
  skipExistsCheck,\* third argument of processDocuments in the current run
  rawDocs,        \* documents loaded by directoryLoader.load()
  todo,           \* sources the loop of processDocuments has still to visit
  skipSources,    \* processDocuments: sources already in the catalog
  catalogRecords, \* processDocuments: catalog records staged in this run
  docs,           \* seed: the chunks handed to LanceDB.fromDocuments in this run
  tempDir,        \* the _temp_processing directory exists
  runs,           \* number of runs started
  failed,         \* history: sources whose loop body threw in this run
  fsAtRun,        \* history: fs when the current run loaded its files
  fsAtPrevRun,    \* history: fs when the previous run loaded its files
  prevPc,         \* history: how the previous run ended
  reported,       \* the counts seed has logged in the current run
  \* --- extractMetadata / mergeMetadata
  mPc,            \* input: arguments chosen; merged: extractMetadata returned
  mPathIn,        \* what extractMetadataFromPath returns for the file
  mContentIn,     \* what extractMetadataFromContent returns for the text
  mAiIn,          \* what extractPdfInformation(...).metadata holds
  mContent,       \* contentMetadata of extractMetadata
  mAi,            \* aiMetadata of extractMetadata
  mResult,        \* the value extractMetadata returns
  \* --- the query server
  qpc,            \* start, ready, responded, failed
  openable,       \* what the database lets the server open: db and tables
  chunksVectorStore,  \* module-level handle is set
  catalogVectorStore, \* module-level handle is set
  imageVectorStore,   \* module-level handle is set
  req,            \* the request being served: tool and params
  simResults,     \* what retriever.invoke returned for it
  resp,           \* what execute settled with
  embedCalls,     \* embedQuery calls made by the last execute
  queryCalls,     \* retriever.invoke calls made by the last execute
  calls,          \* the calls of execute in flight, by call id
  \* --- extractMetadata on files, texts and model answers
  xPc,            \* off, input, returned, threw
  xIn,            \* the file path, the text and what the model call does
  xOut,           \* what the extractors and the merge produced
  \* --- the PDF loader
  lPc,            \* off, input, settled
  lIn,            \* the file load() is called for
  lOut            \* what the gate returned and how load() settled

seedVars == <<fs, catalogExists, catalog, chunksExists, chunks, pc, overwrite,
              skipExistsCheck, rawDocs, todo, skipSources, catalogRecords, docs,
              tempDir, runs, failed, fsAtRun, fsAtPrevRun, prevPc, reported>>
mergeVars == <<mPc, mPathIn, mContentIn, mAiIn, mContent, mAi, mResult>>
queryVars == <<qpc, openable, chunksVectorStore, catalogVectorStore, imageVectorStore,
               req, simResults, resp, embedCalls, queryCalls, calls>>
extractVars == <<xPc, xIn, xOut>>
loadVars == <<lPc, lIn, lOut>>
vars == <<seedVars, mergeVars, queryVars, extractVars, loadVars>>

\* ---------------------------------------------------------------- helpers
RECURSIVE Flatten(_)
Flatten(ss) == IF ss = <<>> THEN <<>> ELSE Head(ss) \o Flatten(Tail(ss))

\* EnhancedPDFLoader / DirectoryLoader: one Document per page of every file
\* present; seed then keeps only loc and source in the metadata.
LoadFile(f, p) ==
  IF f[p] = NoFile THEN <<>>
  ELSE [n \in 1..PageCount(f[p]) |-> [source |-> p, loc |-> [page |-> n]]]

LoadRawDocs(f) == Flatten([i \in DOMAIN PathOrder |-> LoadFile(f, PathOrder[i])])

\* docsBySource: the keys of the reduce, in insertion order.
RECURSIVE SourcesOf(_, _)
SourcesOf(ds, seen) ==
  IF ds = <<>> THEN <<>>
  ELSE IF Head(ds).source \in seen THEN SourcesOf(Tail(ds), seen)
       ELSE <<Head(ds).source>> \o SourcesOf(Tail(ds), seen \cup {Head(ds).source})

\* Mutant: the catch block treats the failed source as one to skip.
skipSourcesAfterError_Push(skip, s) == Append(skip, s)

\* The catch block of the loop body: it logs, and skipSources stays as it is.
skipSourcesAfterError(skip, s) == skip

\* catalogRecordExists: query().where(hash = h).limit(1) has a row.
catalogRecordExists(rows, h) == \E i \in DOMAIN rows : rows[i].hash = h

\* The merged DocumentMetadata of a source, as extractMetadata derives it from
\* the path and the text of the file.
extractMetadataOf(p, b) == <<"metadata", p, b>>

\* new Document({pageContent: overview, metadata: {source, hash, ...metadata}})
CatalogRecord(p, b) ==
  [source |-> p, hash |-> Sha256Hex(b), meta |-> extractMetadataOf(p, b)]

\* Mutant: the skipped sources are not removed.
filteredRawDocs_KeepAll(ds, skip) == ds

\* seed: rawDocs.filter(doc => !skipSources.includes(doc.metadata.source))
filteredRawDocs(ds, skip) == SelectSeq(ds, LAMBDA d : d.source \notin Range(skip))

\* RecursiveCharacterTextSplitter.splitDocuments: chunks keep the metadata of
\* their page and get their own position inside it.
splitDocuments(ds) ==
  [i \in DOMAIN ds |-> [source |-> ds[i].source,
                        loc |-> [page |-> ds[i].loc.page, part |-> 1]]]

\* enhanceDocumentsWithMetadata: metadataBySource is set record by record, so
\* the last record of a source wins; a chunk of a source with an entry gets
\* {...catalogMetadata, loc}, any other chunk is returned as it is.
LastRecordOf(recs, s) ==
  LET idx == {i \in DOMAIN recs : recs[i].source = s}
  IN  recs[CHOOSE i \in idx : \A j \in idx : j <= i]

\* Mutant: loc is not put back after the catalog metadata is copied.
enhanceDocumentsWithMetadata_LosesLoc(ds, recs) ==
  [i \in DOMAIN ds |->
     IF \E j \in DOMAIN recs : recs[j].source = ds[i].source
     THEN LET m == LastRecordOf(recs, ds[i].source)
          IN  [source |-> m.source, hash |-> m.hash, meta |-> m.meta,
               loc |-> [page |-> 0, part |-> 0]]
     ELSE ds[i]]

enhanceDocumentsWithMetadata(ds, recs) ==
  [i \in DOMAIN ds |->
     IF \E j \in DOMAIN recs : recs[j].source = ds[i].source
     THEN LET m == LastRecordOf(recs, ds[i].source)
          IN  [source |-> m.source, hash |-> m.hash, meta |-> m.meta,
               loc |-> ds[i].loc]
     ELSE ds[i]]

\* Mutant: the catch block rethrows, so a failing source rejects seed().
pcAfterSource_Rethrow(fail) == IF fail # "none" THEN "aborted" ELSE "process"

\* Where seed() stands after one iteration of the loop of processDocuments:
\* the try/catch around the body keeps every failure inside the iteration.
pcAfterSource(fail) == "process"

\* Mutant: the insert replaces the rows that have the source of a new row.
fromDocuments_Upsert(rows, documents) ==
  SelectSeq(rows, LAMBDA r : \A i \in DOMAIN documents :
                                documents[i].source # r.source) \o documents

\* LanceDB.fromDocuments(documents, embeddingModel, {mode: undefined,
\* tableName}) on a table holding rows (none when the table is missing): the
\* documents are added after the rows there are.
fromDocuments(rows, documents) == rows \o documents

\* console.log("Number of new catalog records: ", catalogRecords.length)
\* console.log("Number of skipped sources: ", skipSources.length)
reportCounts(recs, skip) == [new |-> Len(recs), skipped |-> Len(skip)]

\* ------------------------------------------------------------------- Init
\* The indexer before its first run, over the file tree f.
SeedInit(f) ==
  /\ fs = f
  /\ catalogExists = FALSE
  /\ catalog = <<>>
  /\ chunksExists = FALSE
  /\ chunks = <<>>
  /\ pc = "idle"
  /\ overwrite = FALSE
  /\ skipExistsCheck = FALSE
  /\ rawDocs = <<>>
  /\ todo = <<>>
  /\ skipSources = <<>>
  /\ catalogRecords = <<>>
  /\ docs = <<>>
  /\ tempDir = FALSE
  /\ runs = 0
  /\ failed = {}
  /\ fsAtRun = fs
  /\ fsAtPrevRun = fs
  /\ prevPc = "idle"
  /\ reported = [new |-> -1, skipped |-> -1]

\* ------------------------------------------------- metadata: the merger
\* A DocumentMetadata object is a function from field names to a value or
\* Absent (the key is missing, or holds undefined/null).
Absent == "undefined"

\* JavaScript truthiness of a field value: undefined and "" are falsy.
Truthy(v) == v # Absent /\ v # ""

\* The keys the merger is exercised on (it treats every key alike).
MergeFields == {"project", "discipline"}
EmptyMeta == [k \in MergeFields |-> Absent]

\* Values the three extractors may hold for a field.
ContentVals == {Absent, "", "General"}
PathVals == {Absent, "", "Structural"}
AiVals == {Absent, "", "Electrical"}

\* Mutant: a source's value overwrites whenever the key is present.
MergeInto_AnyValue(acc, src) ==
  [k \in MergeFields |-> IF src[k] # Absent THEN src[k] ELSE acc[k]]

\* mergeMetadata, inner loop: for (const [key, value] of Object.entries(source))
\*   if (value) result[key] = value
MergeInto(acc, src) ==
  [k \in MergeFields |-> IF Truthy(src[k]) THEN src[k] ELSE acc[k]]

\* mergeMetadata(...sources): sources in order of increasing priority.
RECURSIVE MergeFrom(_, _)
MergeFrom(acc, sources) ==
  IF sources = <<>> THEN acc
  ELSE MergeFrom(MergeInto(acc, Head(sources)), Tail(sources))

mergeMetadata(sources) == MergeFrom(EmptyMeta, sources)

MergeIdle ==
  /\ mPc = "idle"
  /\ mPathIn = EmptyMeta
  /\ mContentIn = EmptyMeta
  /\ mAiIn = EmptyMeta
  /\ mContent = EmptyMeta
  /\ mAi = EmptyMeta
  /\ mResult = EmptyMeta

\* extractMetadata(filePath, content): content-based extraction only when
\* content is given (truthy), AI extraction only for .pdf paths and only when
\* extractPdfInformation does not throw; then the three are merged.
ExtractMetadata ==
  /\ mPc = "input"
  /\ \E contentGiven \in BOOLEAN, isPdf \in BOOLEAN, aiThrows \in BOOLEAN :
       LET contentMetadata == IF contentGiven THEN mContentIn ELSE EmptyMeta
           aiMetadata == IF isPdf /\ ~aiThrows THEN mAiIn ELSE EmptyMeta
       IN /\ mContent' = contentMetadata
          /\ mAi' = aiMetadata
          /\ mResult' = mergeMetadata(<<contentMetadata, mPathIn, aiMetadata>>)
  /\ mPc' = "merged"
  /\ UNCHANGED <<mPathIn, mContentIn, mAiIn, seedVars, queryVars, extractVars, loadVars>>


\* ----------------------------------------------- metadata: the extractors
\* A string is a sequence of atoms, and is the concatenation of its atoms.
\* An atom is one character (a digit, white space, punctuation) or a run of
\* letters cut where a pattern of the code can begin or end, so "PROJECT" is
\* <<"PROJ", "ECT">> and "REVISION" is <<"REV", "ISION">>.
MaxSheetLen == 4

Digit == {"0", "1", "2", "3", "4", "5", "6", "7", "8", "9"}
WhiteSpace == {" ", "\n", "\t"}
IsLetters(a) ==
  a \notin (Digit \cup WhiteSpace \cup {":", ".", "-", "/", "\\", "_", ","})

\* String.prototype.toUpperCase of one atom, on the atoms of the inputs
\* below that have lower-case letters.
toUpperCase(a) ==
  CASE a = "s" -> "S"
    [] a = "rev" -> "REV"
    [] a = "Proj" -> "PROJ"
    [] a = "ect" -> "ECT"
    [] a = "Division" -> "DIVISION"
    [] OTHER -> a

\* String.prototype.toLowerCase of a string, on the atoms of the inputs
\* below that have upper-case letters and are compared in lower case.
toLowerCase(s) ==
  [i \in DOMAIN s |->
     CASE s[i] = "Projects" -> "projects"
       [] s[i] = "Project" -> "project"
       [] s[i] = "PDFdrawings" -> "pdfdrawings"
       [] s[i] = "MCP" -> "mcp"
       [] s[i] = "PDF" -> "pdf"
       [] OTHER -> s[i]]

\* String.prototype.charAt(0): the first character of the first atom.
charAt0(s) ==
  IF s = <<>> THEN ""
  ELSE CASE s[1] = "Site" -> "S"
         [] s[1] = "Division" -> "D"
         [] OTHER -> s[1]

\* String.prototype.trim
trim(s) ==
  LET inked == {i \in DOMAIN s : s[i] \notin WhiteSpace}
  IN IF inked = {} THEN <<>>
     ELSE SubSeq(s, CHOOSE i \in inked : \A j \in inked : i <= j,
                    CHOOSE i \in inked : \A j \in inked : j <= i)

\* String.prototype.split(sep) for a one-character separator.
RECURSIVE split(_, _)
split(s, sep) ==
  IF \A i \in DOMAIN s : s[i] # sep THEN <<s>>
  ELSE LET i == CHOOSE k \in DOMAIN s :
                  s[k] = sep /\ \A j \in 1..(k - 1) : s[j] # sep
       IN <<SubSeq(s, 1, i - 1)>> \o split(SubSeq(s, i + 1, Len(s)), sep)

\* String.prototype.includes / endsWith
includes(s, t) ==
  \E i \in 0..(Len(s) - Len(t)) : SubSeq(s, i + 1, i + Len(t)) = t
endsWith(s, t) ==
  Len(t) <= Len(s) /\ SubSeq(s, Len(s) - Len(t) + 1, Len(s)) = t

\* parseInt(s): leading white space is skipped, then the longest run of
\* digits is read; NaN (here -1) when there is none.  No sign occurs in the
\* inputs.
NaN == -1
parseInt(s) ==
  LET inked == {i \in DOMAIN s : s[i] \notin WhiteSpace}
      from == IF inked = {} THEN Len(s) + 1
              ELSE CHOOSE i \in inked : \A j \in inked : i <= j
      t == SubSeq(s, from, Len(s))
      stops == {i \in DOMAIN t : t[i] \notin Digit}
      n == IF stops = {} THEN Len(t)
           ELSE (CHOOSE i \in stops : \A j \in stops : i <= j) - 1
      value[k \in 0..n] ==
        IF k = 0 THEN 0
        ELSE value[k - 1] * 10 + (CHOOSE d \in 0..9 : ToString(d) = t[k])
  IN IF n = 0 THEN NaN ELSE value[n]

\* JavaScript values: undefined, a string, a number.
Undefined == [t |-> "undefined", s |-> <<>>, n |-> 0]
Str(s) == [t |-> "string", s |-> s, n |-> 0]
Num(n) == [t |-> "number", s |-> <<>>, n |-> n]
\* ToBoolean(v)
JsTruthy(v) ==
  \/ v.t = "string" /\ v.s # <<>>
  \/ v.t = "number" /\ v.n # 0

\* ---- regular expressions, as String.prototype.match evaluates them
\* (flag i, no flag g or m): a backtracking matcher that returns the ways a
\* pattern can match at a position in priority order, so the head is the
\* match JavaScript reports.  Anchor("$") is the end of the input,
\* Anchor("\\b") a word boundary; Star is greedy, LazyStar is *?.
Lit(a) == [op |-> "lit", a |-> a]
Cls(c) == [op |-> "cls", c |-> c]
Cat(rs) == [op |-> "cat", rs |-> rs]
Alt(rs) == [op |-> "alt", rs |-> rs]
Star(r) == [op |-> "star", r |-> r]
LazyStar(r) == [op |-> "lazy", r |-> r]
Grp(n, r) == [op |-> "grp", n |-> n, r |-> r]
Anchor(a) == [op |-> "anchor", a |-> a]

\* \s  \d  .  [A-Z0-9]  [A-Z0-9\-\.]  \w
InClass(c, a) ==
  CASE c = "\\s" -> a \in WhiteSpace
    [] c = "\\d" -> a \in Digit
    [] c = "." -> a # "\n"
    [] c = "[A-Z0-9]" -> a \in Digit \/ IsLetters(a)
    [] c = "[A-Z0-9\\-\\.]" -> a \in Digit \/ IsLetters(a) \/ a \in {"-", "."}
    [] c = "\\w" -> a \in Digit \/ IsLetters(a) \/ a = "_"

\* Capture groups 1 and 2; <<0, 0>>: the group did not take part.
NoCaps == [n \in 1..2 |-> <<0, 0>>]

RECURSIVE Match(_, _, _, _)
RECURSIVE MatchCat(_, _, _, _)
RECURSIVE CatCont(_, _, _)

\* The matches of re in s that start at position i, best first; a match is
\* its end position e and the groups caps captured on the way.
Match(re, s, i, caps) ==
  LET here == <<[e |-> i, caps |-> caps]>>
      next == <<[e |-> i + 1, caps |-> caps]>>
      Longer(m) == m.e > i
      IsWordAt(k) == k \in DOMAIN s /\ InClass("\\w", s[k])
  IN CASE re.op = "lit" ->
            IF i \in DOMAIN s /\ toUpperCase(s[i]) = toUpperCase(re.a)
            THEN next ELSE <<>>
       [] re.op = "cls" ->
            IF i \in DOMAIN s /\ InClass(re.c, s[i]) THEN next ELSE <<>>
       [] re.op = "cat" -> MatchCat(re.rs, s, i, caps)
       [] re.op = "alt" ->
            LET upTo[k \in 0..Len(re.rs)] ==
                  IF k = 0 THEN <<>>
                  ELSE upTo[k - 1] \o Match(re.rs[k], s, i, caps)
            IN upTo[Len(re.rs)]
       [] re.op = "star" ->
            CatCont(SelectSeq(Match(re.r, s, i, caps), Longer), <<re>>, s) \o here
       [] re.op = "lazy" ->
            here \o CatCont(SelectSeq(Match(re.r, s, i, caps), Longer), <<re>>, s)
       [] re.op = "grp" ->
            LET ms == Match(re.r, s, i, caps)
            IN [k \in DOMAIN ms |->
                  [e |-> ms[k].e,
                   caps |-> [ms[k].caps EXCEPT ![re.n] = <<i, ms[k].e>>]]]
       [] re.op = "anchor" ->
            IF re.a = "$"
            THEN IF i = Len(s) + 1 THEN here ELSE <<>>
            ELSE IF IsWordAt(i - 1) # IsWordAt(i) THEN here ELSE <<>>

\* A sequence of patterns one after the other.
MatchCat(rs, s, i, caps) ==
  IF rs = <<>> THEN <<[e |-> i, caps |-> caps]>>
  ELSE CatCont(Match(Head(rs), s, i, caps), Tail(rs), s)

\* The patterns rs after each of the matches ms.
CatCont(ms, rs, s) ==
  IF ms = <<>> THEN <<>>
  ELSE MatchCat(rs, s, Head(ms).e, Head(ms).caps) \o CatCont(Tail(ms), rs, s)

\* s.match(re): the leftmost match, or null.
NoMatch == [found |-> FALSE, s |-> <<>>, caps |-> NoCaps]
match(s, re) ==
  LET starts == {i \in 1..(Len(s) + 1) : Match(re, s, i, NoCaps) # <<>>}
  IN IF starts = {} THEN NoMatch
     ELSE LET i == CHOOSE k \in starts : \A j \in starts : k <= j
          IN [found |-> TRUE, s |-> s, caps |-> Head(Match(re, s, i, NoCaps)).caps]

\* s.match(re1) || s.match(re2) || ...
RECURSIVE firstMatch(_, _)
firstMatch(s, res) ==
  IF res = <<>> THEN NoMatch
  ELSE IF match(s, Head(res)).found THEN match(s, Head(res))
  ELSE firstMatch(s, Tail(res))

\* m[n]: the text of group n, undefined when the group did not take part.
group(m, n) ==
  IF ~m.found \/ m.caps[n] = <<0, 0>> THEN Undefined
  ELSE Str(SubSeq(m.s, m.caps[n][1], m.caps[n][2] - 1))

\* if (m && m[1]) field = m[1].trim()
trimmedGroup1(m) ==
  IF m.found /\ JsTruthy(group(m, 1)) THEN Str(trim(group(m, 1).s)) ELSE Undefined

\* ---- DocumentMetadata
Fields == {"project", "discipline", "drawingNumber", "drawingType", "phase",
           "documentType", "revision", "section", "sheetNumber", "buildingArea"}
\* const metadata: DocumentMetadata = {}
NoFields == [k \in Fields |-> Undefined]
\* A string literal without white space or punctuation.
Name(a) == Str(<<a>>)

getSpecificationDiscipline(divisionNumber) ==
  LET divNum == parseInt(divisionNumber)
  IN IF divNum >= 1 /\ divNum <= 14 THEN "Architectural"
     ELSE IF divNum >= 21 /\ divNum <= 23 THEN "Mechanical"
     ELSE IF divNum >= 25 /\ divNum <= 28 THEN "Electrical"
     ELSE IF divNum >= 31 /\ divNum <= 35 THEN "Civil"
     ELSE IF divNum = 9 THEN "Finishes"
     ELSE "General"

\* disciplineMap[code]
disciplineMap(code) ==
  CASE code = "S" -> Name("Structural")
    [] code = "C" -> Name("Civil")
    [] code = "A" -> Name("Architectural")
    [] code = "M" -> Name("Mechanical")
    [] code = "E" -> Name("Electrical")
    [] code = "P" -> Name("Plumbing")
    [] code = "L" -> Name("Landscape")
    [] code = "G" -> Name("General")
    [] code = "D" -> Name("Demolition")
    [] code = "F" -> Str(<<"Fire", " ", "Protection">>)
    [] code = "T" -> Name("Telecommunications")
    [] code = "I" -> Name("Interiors")
    [] OTHER -> Undefined

\* Mutant: the bands are closed one sheet too late (1-100, 101-200, ...).
drawingTypeOfSheet_Shifted(sheetNum) ==
  IF sheetNum = NaN THEN Undefined
  ELSE IF sheetNum >= 1 /\ sheetNum <= 100 THEN Name("General")
  ELSE IF sheetNum >= 101 /\ sheetNum <= 200 THEN Name("Plans")
  ELSE IF sheetNum >= 201 /\ sheetNum <= 300 THEN Name("Elevations")
  ELSE IF sheetNum >= 301 /\ sheetNum <= 400 THEN Name("Sections")
  ELSE IF sheetNum >= 401 /\ sheetNum <= 500 THEN Name("Details")
  ELSE IF sheetNum >= 501 /\ sheetNum <= 600 THEN Name("Schedules")
  ELSE IF sheetNum >= 601 /\ sheetNum <= 700 THEN Name("Diagrams")
  ELSE Undefined

\* The sheet-number bands of extractMetadataFromPath.
drawingTypeOfSheet(sheetNum) ==
  IF sheetNum = NaN THEN Undefined
  ELSE IF sheetNum >= 1 /\ sheetNum <= 99 THEN Name("General")
  ELSE IF sheetNum >= 100 /\ sheetNum <= 199 THEN Name("Plans")
  ELSE IF sheetNum >= 200 /\ sheetNum <= 299 THEN Name("Elevations")
  ELSE IF sheetNum >= 300 /\ sheetNum <= 399 THEN Name("Sections")
  ELSE IF sheetNum >= 400 /\ sheetNum <= 499 THEN Name("Details")
  ELSE IF sheetNum >= 500 /\ sheetNum <= 599 THEN Name("Schedules")
  ELSE IF sheetNum >= 600 /\ sheetNum <= 699 THEN Name("Diagrams")
  ELSE Undefined

extractMetadataFromPath(filePath) ==
  LET normalizedPath ==
        [i \in DOMAIN filePath |-> IF filePath[i] = "\\" THEN "/" ELSE filePath[i]]
      pathParts == split(normalizedPath, "/")
      \* path.basename: the last non-empty segment
      NonEmpty(seg) == seg # <<>>
      segs == SelectSeq(pathParts, NonEmpty)
      filename == IF segs = <<>> THEN <<>> ELSE segs[Len(segs)]
      \* path.extname: from the last "." of the basename, unless that is its
      \* first character
      dots == {i \in DOMAIN filename : filename[i] = "."}
      lastDot == IF dots = {} THEN 0 ELSE CHOOSE i \in dots : \A j \in dots : j <= i
      drawingNumber ==
        IF lastDot > 1 THEN SubSeq(filename, 1, lastDot - 1) ELSE filename
      \* /Division\s+(\d+)/i
      divMatch ==
        match(filename,
              Cat(<<Lit("Division"), Cls("\\s"), Star(Cls("\\s")),
                    Grp(1, Cat(<<Cls("\\d"), Star(Cls("\\d"))>>))>>))
      documentType ==
        IF includes(normalizedPath, <<"/", "Drawings", "/">>) THEN Name("Drawing")
        ELSE IF includes(normalizedPath, <<"/", "TextDocs", "/">>)
        THEN IF filename # <<>> /\ filename[1] = "Division"
             THEN Name("Specification") ELSE Name("TextDoc")
        ELSE Undefined
      folderDiscipline ==
        IF /\ documentType = Name("Specification")
           /\ divMatch.found /\ JsTruthy(group(divMatch, 1))
        THEN Name(getSpecificationDiscipline(group(divMatch, 1).s))
        ELSE Undefined
      found == {i \in DOMAIN pathParts :
                  toLowerCase(pathParts[i]) \in
                    {<<"projects">>, <<"project">>, <<"pdfdrawings", "-", "mcp">>}}
      projectsIndex == IF found = {} THEN 0
                       ELSE CHOOSE i \in found : \A j \in found : i <= j
      project ==
        IF /\ projectsIndex >= 1 /\ Len(pathParts) > projectsIndex
           /\ toLowerCase(pathParts[projectsIndex]) # <<"pdfdrawings", "-", "mcp">>
        THEN Str(pathParts[projectsIndex + 1])
        ELSE Name("PDFdrawings")
      isDrawing == drawingNumber # <<>> /\ documentType = Name("Drawing")
      codeDiscipline == disciplineMap(toUpperCase(charAt0(drawingNumber)))
      parts == split(drawingNumber, "-")
      hasSheet == isDrawing /\ Len(parts) > 2 /\ parts[3] # <<>>
  IN [NoFields EXCEPT
        !["drawingNumber"] = Str(drawingNumber),
        !["documentType"] = documentType,
        !["project"] = project,
        !["discipline"] =
            IF isDrawing /\ JsTruthy(codeDiscipline)
            THEN codeDiscipline ELSE folderDiscipline,
        !["buildingArea"] =
            IF isDrawing /\ Len(parts) > 1 /\ parts[2] # <<>>
            THEN Str(parts[2]) ELSE Undefined,
        !["sheetNumber"] = IF hasSheet THEN Str(parts[3]) ELSE Undefined,
        !["drawingType"] =
            IF hasSheet THEN drawingTypeOfSheet(parseInt(parts[3])) ELSE Undefined]

extractMetadataFromContent(content) ==
  LET Opt(r) == Alt(<<r, Cat(<<>>)>>)
      Plus(r) == Cat(<<r, Star(r)>>)
      Ws == Cls("\\s")
      Token == Plus(Cls("[A-Z0-9]"))
      Number == Plus(Cls("[A-Z0-9\\-\\.]"))
      \* :?\s*(.*?)(?:\n|$) with the capture in group n
      RestOfLine(n) ==
        <<Opt(Lit(":")), Star(Ws), Grp(n, LazyStar(Cls("."))),
          Alt(<<Lit("\n"), Anchor("$")>>)>>
      projectMatch ==
        firstMatch(content,
          <<\* /PROJECT:?\s*(.*?)(?:\n|$)/i
            Cat(<<Lit("PROJ"), Lit("ECT")>> \o RestOfLine(1)),
            \* /PROJECT\s+NAME:?\s*(.*?)(?:\n|$)/i
            Cat(<<Lit("PROJ"), Lit("ECT"), Plus(Ws), Lit("NAME")>>
                  \o RestOfLine(1)),
            \* /PROJ(\.|ECT)?\s+TITLE:?\s*(.*?)(?:\n|$)/i
            Cat(<<Lit("PROJ"), Opt(Grp(1, Alt(<<Lit("."), Lit("ECT")>>))),
                  Plus(Ws), Lit("TITLE")>> \o RestOfLine(2))>>)
      phaseMatch ==
        firstMatch(content,
          <<\* /PHASE:?\s*(.*?)(?:\n|$)/i
            Cat(<<Lit("PHASE")>> \o RestOfLine(1)),
            \* /ISSUED\s+FOR\s+(.*?)(?:\n|$)/i
            Cat(<<Lit("ISSUED"), Plus(Ws), Lit("FOR"), Plus(Ws),
                  Grp(1, LazyStar(Cls("."))), Alt(<<Lit("\n"), Anchor("$")>>)>>),
            \* /STATUS:?\s*(.*?)(?:\n|$)/i
            Cat(<<Lit("STATUS")>> \o RestOfLine(1))>>)
      revisionMatch ==
        firstMatch(content,
          <<\* /REV(ISION)?:?\s*([A-Z0-9]+)/i
            Cat(<<Lit("REV"), Opt(Grp(1, Lit("ISION"))), Opt(Lit(":")),
                  Star(Ws), Grp(2, Token)>>),
            \* /REV\.\s*([A-Z0-9]+)/i
            Cat(<<Lit("REV"), Lit("."), Star(Ws), Grp(1, Token)>>)>>)
      disciplineMatch ==
        firstMatch(content,
          <<\* /DISCIPLINE:?\s*(.*?)(?:\n|$)/i
            Cat(<<Lit("DISCIPLINE")>> \o RestOfLine(1)),
            \* /\b(STRUCTURAL|ARCHITECTURAL|MECHANICAL|ELECTRICAL|CIVIL|PLUMBING)\s+DRAWINGS?\b/i
            Cat(<<Anchor("\\b"),
                  Grp(1, Alt(<<Lit("STRUCTURAL"), Lit("ARCHITECTURAL"),
                               Lit("MECHANICAL"), Lit("ELECTRICAL"),
                               Lit("CIVIL"), Lit("PLUMBING")>>)),
                  Plus(Ws), Lit("DRAWING"), Opt(Lit("S")), Anchor("\\b")>>)>>)
      \* /\b(PLAN|ELEVATION|SECTION|DETAIL|SCHEDULE|DIAGRAM)\b/i
      drawingTypeMatch ==
        match(content,
          Cat(<<Anchor("\\b"),
                Grp(1, Alt(<<Lit("PLAN"), Lit("ELEVATION"), Lit("SECTION"),
                             Lit("DETAIL"), Lit("SCHEDULE"), Lit("DIAGRAM")>>)),
                Anchor("\\b")>>))
      drawingNumberMatch ==
        firstMatch(content,
          <<\* /DWG\.?\s*NO\.?:?\s*([A-Z0-9\-\.]+)/i
            Cat(<<Lit("DWG"), Opt(Lit(".")), Star(Ws), Lit("NO"), Opt(Lit(".")),
                  Opt(Lit(":")), Star(Ws), Grp(1, Number)>>),
            \* /DRAWING\s+NUMBER:?\s*([A-Z0-9\-\.]+)/i
            Cat(<<Lit("DRAWING"), Plus(Ws), Lit("NUMBER"), Opt(Lit(":")),
                  Star(Ws), Grp(1, Number)>>)>>)
  IN [NoFields EXCEPT
        !["project"] = trimmedGroup1(projectMatch),
        !["phase"] = trimmedGroup1(phaseMatch),
        !["revision"] = trimmedGroup1(revisionMatch),
        !["discipline"] = trimmedGroup1(disciplineMatch),
        !["drawingType"] = trimmedGroup1(drawingTypeMatch),
        !["drawingNumber"] = trimmedGroup1(drawingNumberMatch)]

\* ---- the AI extractor
\* A parsed JSON value as far as Object.entries tells values apart: null,
\* or an object with the fields f.
Object(f) == [isNull |-> FALSE, f |-> f]
Null == [isNull |-> TRUE, f |-> NoFields]
EmptyObject == Object(NoFields)

\* What the environment does during extractPdfInformation: read is the file
\* read of extractKeyPdfSections, call the model call, parses whether
\* JSON.parse accepts the model's text, value what it parses to.
AiOutcome(read, call, parses, value) ==
  [read |-> read, call |-> call, parses |-> parses, value |-> value]

\* Mutant: an unparseable answer is kept as the project.
extractMetadataWithAI_KeepText(ai) ==
  IF ai.call = "throws" THEN EmptyObject
  ELSE IF ~ai.parses THEN Object([NoFields EXCEPT !["project"] = Name("Sure")])
  ELSE ai.value

\* extractMetadataWithAI(sections): {} when the call throws or the text does
\* not parse, else the parsed value as it is.
extractMetadataWithAI(ai) ==
  IF ai.call = "throws" THEN EmptyObject
  ELSE IF ~ai.parses THEN EmptyObject
  ELSE ai.value

\* extractPdfInformation(pdfPath): rethrows what extractKeyPdfSections throws.
extractPdfInformation(ai) ==
  IF ai.read = "throws" THEN [threw |-> TRUE, metadata |-> EmptyObject]
  ELSE [threw |-> FALSE, metadata |-> extractMetadataWithAI(ai)]

\* mergeMetadata(...sources) on DocumentMetadata objects.
mergeSources(sources) ==
  LET result[n \in 0..Len(sources)] ==
        IF n = 0 THEN NoFields
        ELSE [k \in Fields |->
                IF JsTruthy(sources[n][k]) THEN sources[n][k] ELSE result[n - 1][k]]
  IN result[Len(sources)]

\* extractMetadata(filePath, content) when the environment behaves as ai.
\* threw: Object.entries(null) throws in mergeMetadata, outside the try.
extractMetadata(filePath, content, ai) ==
  LET pathMetadata == extractMetadataFromPath(filePath)
      contentMetadata ==
        IF content # <<>> THEN extractMetadataFromContent(content) ELSE NoFields
      isPdf == endsWith(toLowerCase(filePath), <<".", "pdf">>)
      pdfInfo == extractPdfInformation(ai)
      aiMetadata ==
        IF isPdf /\ ~pdfInfo.threw THEN pdfInfo.metadata ELSE EmptyObject
  IN [threw |-> aiMetadata.isNull,
      pathMetadata |-> pathMetadata,
      contentMetadata |-> contentMetadata,
      aiMetadata |-> aiMetadata,
      aiCaught |-> isPdf /\ pdfInfo.threw,
      mergedMetadata |->
        IF aiMetadata.isNull THEN NoFields
        ELSE mergeSources(<<contentMetadata, pathMetadata, aiMetadata.f>>)]

NoOutput ==
  [threw |-> FALSE, pathMetadata |-> NoFields, contentMetadata |-> NoFields,
   aiMetadata |-> EmptyObject, aiCaught |-> FALSE, mergedMetadata |-> NoFields]

\* ---- the files, texts and model answers extractMetadata is applied to
\* <dir>/Drawings/<code>-<area>-<sheet>.pdf
DrawingName(code, area, sheet) == [code |-> code, area |-> area, sheet |-> sheet]
DrawingPath(name) ==
  <<"/", "in", "/", "Drawings", "/", name.code, "-">> \o name.area \o <<"-">>
    \o name.sheet \o <<".", "pdf">>
NoName == DrawingName("", <<>>, <<>>)
\* Every sheet number of up to MaxSheetLen characters on one drawing, and
\* every discipline code (two that the table lacks among them) on another.
DrawingNames ==
  LET SheetChars == {"0", "1", "2", "3", "4", "5", "6", "7", "9", "A"}
      SheetNumbers == UNION {[1..n -> SheetChars] : n \in 1..MaxSheetLen}
      CodeLetters ==
        {"S", "C", "A", "M", "E", "P", "L", "G", "D", "F", "T", "I", "X", "s"}
  IN {DrawingName("S", <<"4", "6">>, sh) : sh \in SheetNumbers}
       \cup {DrawingName(c, a, <<"1", "5", "0">>) :
               c \in CodeLetters, a \in {<<"4", "6">>, <<"5", "0">>}}
S_46_1001 == DrawingName("S", <<"4", "6">>, <<"1", "0", "0", "1">>)

\* /in/TextDocs/Division <d1><d2> - Concrete.pdf
DivisionPath(d1, d2) ==
  <<"/", "in", "/", "TextDocs", "/", "Division", " ", d1, d2, " ", "-", " ",
    "Concrete", ".", "pdf">>
OtherPaths ==
  {DivisionPath("0", "3"), DivisionPath("0", "9"), DivisionPath("2", "2"),
   DivisionPath("2", "6"), DivisionPath("3", "3"), DivisionPath("4", "0"),
   <<"/", "in", "/", "TextDocs", "/", "notes", ".", "txt">>,
   <<"/", "Projects", "/", "Lift", " ", "Station", "/", "Drawings", "/",
     "C", "-", "1", "0", "1", ".", "pdf">>,
   <<"/", "data", "/", "project", "/", "Plant", "/", "TextDocs", "/",
     "notes", ".", "txt">>,
   <<"/", "PDFdrawings", "-", "MCP", "/", "Projects", "/", "Lift", " ", "Station",
     "/", "Drawings", "/", "C", "-", "1", "0", "1", ".", "pdf">>,
   <<"/", "PDFdrawings", "-", "MCP", "/", "InputDocs", "/", "Drawings", "/",
     "A", "-", "1", "-", "2", "0", "0", ".", "pdf">>,
   <<"C", ":", "\\", "in", "\\", "Drawings", "\\",
     "S", "-", "4", "6", "-", "1", "5", "0", ".", "pdf">>,
   <<"Drawings", "/", "S", "-", "4", "6", "-", "1", "0", "0", "1", ".", "pdf">>,
   <<"/", "in", "/", "Drawings", "/",
     "S", "-", " ", "4", "6", " ", "-", " ", "1", "0", "0", "1", ".", "pdf">>,
   <<"/", "in", "/", "Drawings", "/", "E", "-", "2", "-", "6", "5", "0", ".", "PDF">>,
   <<"/", "in", "/", "Drawings", "/", "Site", "-", "1", "-", "1", "5", "0", ".", "pdf">>}

\* Title-block texts.  A labelled text is prefix, label, gap, value, suffix;
\* the value is the rest of the label's line.  A text of kind "plain" has no
\* label the model knows of.
LabelledText(kind, prefix, label, gap, value, suffix) ==
  [kind |-> kind, label |-> label, value |-> value,
   content |-> prefix \o label \o gap \o value \o suffix]
PlainText(content) == LabelledText("plain", content, <<>>, <<>>, <<>>, <<>>)
C11Text ==
  PlainText(<<"PROJ", "ECT", ":", " ", "Lift", " ", "Station", "\n",
              "PHASE", ":", " ", "Construction", " ", "Documents">>)
Texts ==
  LET ProjectLabels ==
        {<<"PROJ", "ECT", ":">>, <<"PROJ", "ECT", " ", "NAME", ":">>,
         <<"PROJ", " ", "TITLE", ":">>, <<"PROJ", "ECT", " ", "TITLE", ":">>,
         <<"Proj", "ect", ":">>}
      ProjectNames == {<<"Lift", " ", "Station">>, <<"Plant", " ", "7">>}
      RevisionLabels ==
        {<<"REV", ":">>, <<"REV", "ISION", ":">>, <<"REV", ".">>, <<"rev", ":">>}
      RevisionTokens == {<<"B">>, <<"2">>, <<"A", "1">>}
      Prefixes == {<<>>, <<"CITY", " ", "WORKS", "\n">>}
      Gaps == {<<>>, <<" ">>}
  IN {PlainText(<<>>),
      C11Text,
      PlainText(<<"GENERAL", " ", "NOTES">>),
      PlainText(<<"REV", "IEW", " ", "SET">>),
      PlainText(<<"ISSUED", " ", "FOR", " ", "BID">>),
      PlainText(<<"STATUS", ":", " ", "DRAFT", " ">>),
      PlainText(<<"DISCIPLINE", ":", " ", "Civil", "\n", "FLOOR", " ", "PLAN">>),
      PlainText(<<"STRUCTURAL", " ", "DRAWING", "S", "\n", "SECTION", "S">>),
      PlainText(<<"DWG", ".", " ", "NO", ".", ":", " ", "S", "-", "1", "0", "1">>),
      PlainText(<<"DRAWING", " ", "NUMBER", " ", "C", ".", "2">>)}
       \cup {LabelledText("project", p, l, g, v, s) :
               p \in Prefixes, l \in ProjectLabels, g \in Gaps, v \in ProjectNames,
               s \in {<<>>, <<" ">>, <<"\n", "SHEET", " ", "1">>}}
       \cup {LabelledText("revision", p, l, g, v, s) :
               p \in Prefixes, l \in RevisionLabels, g \in Gaps,
               v \in RevisionTokens,
               s \in {<<>>, <<"\n", "SCALE", ":", " ", "NTS">>}}

\* The four ways extractPdfInformation can go.
ReadThrows == AiOutcome("throws", "ok", FALSE, EmptyObject)
CallThrows == AiOutcome("ok", "throws", FALSE, EmptyObject)
NotJson == AiOutcome("ok", "ok", FALSE, EmptyObject)
Parsed(v) == AiOutcome("ok", "ok", TRUE, v)
AiOutcomes ==
  {ReadThrows, CallThrows, NotJson}
    \cup {Parsed(v) :
            v \in {EmptyObject,
                   Object([NoFields EXCEPT
                             !["project"] = Str(<<"Pump", " ", "House">>)]),
                   Object([NoFields EXCEPT !["revision"] = Num(3)]),
                   Object([NoFields EXCEPT !["project"] = Str(<<" ">>)]),
                   Object([NoFields EXCEPT
                             !["discipline"] = Str(<<"Electrical", " ">>)]),
                   Null}}

ExtractInput(path, name, text, ai) ==
  [path |-> path, name |-> name, text |-> text, content |-> text.content,
   ai |-> ai]
\* Every drawing name without text, every text on a few files, every model
\* answer on every other file.
ExtractInputs ==
  {ExtractInput(DrawingPath(n), n, PlainText(<<>>), Parsed(EmptyObject)) :
     n \in DrawingNames}
    \cup {ExtractInput(DivisionPath("0", "3"), NoName, t, Parsed(EmptyObject)) :
            t \in Texts}
    \cup {ExtractInput(DrawingPath(S_46_1001), S_46_1001, t, Parsed(EmptyObject)) :
            t \in Texts}
    \cup {ExtractInput(p, NoName, t, ai) :
            p \in OtherPaths, t \in {PlainText(<<>>), C11Text}, ai \in AiOutcomes}
    \cup {ExtractInput(DrawingPath(S_46_1001), S_46_1001, C11Text, ai) :
            ai \in AiOutcomes}

ExtractIdle ==
  /\ xPc = "off"
  /\ xIn = ExtractInput(<<>>, NoName, PlainText(<<>>), Parsed(EmptyObject))
  /\ xOut = NoOutput

\* One call of extractMetadata(filePath, content).
ExtractFile ==
  /\ xPc = "input"
  /\ LET out == extractMetadata(xIn.path, xIn.content, xIn.ai)
     IN /\ xOut' = out
        /\ xPc' = IF out.threw THEN "threw" ELSE "returned"
  /\ UNCHANGED <<xIn, seedVars, mergeVars, queryVars, loadVars>>

\* ------------------------------------- the oversize gate and the PDF loader
\* config.pdf
maxSizeMb == 10
maxPagesPerChunk == 20

\* A PDF file as the gate and the loader meet it: whether fs.promises.stat
\* and fs.promises.readFile succeed, the size in bytes, whether pdf-parse
\* accepts the bytes and the page count it then reports, and whether
\* PDFLoader.load() (super.load()) resolves.
PdfFile(stat, size, read, parse, numpages, load) ==
  [stat |-> stat, size |-> size, read |-> read, parse |-> parse,
   numpages |-> numpages, load |-> load]
PdfFiles ==
  {PdfFile(st, sz, rd, pa, n, ld) :
     st \in {"ok", "throws"},
     sz \in {1, maxSizeMb * 1024 * 1024, maxSizeMb * 1024 * 1024 + 1,
             5 * maxSizeMb * 1024 * 1024},
     rd \in {"ok", "throws"}, pa \in {"ok", "throws"},
     n \in {1, maxPagesPerChunk, maxPagesPerChunk + 1},
     ld \in {"ok", "rejects"}}

\* The wrapper around pdf-parse: an error of the library is logged and a
\* one-page result is returned in its place.
pdfParse(file) ==
  IF file.parse = "throws" THEN [numpages |-> 1] ELSE [numpages |-> file.numpages]

\* shouldSplitPdf(pdfPath): stat is outside the try block, so its error
\* rejects the call; stats.size / (1024 * 1024) > maxSizeMb is compared in
\* bytes.
shouldSplitPdf(file) ==
  IF file.stat = "throws" THEN [rejected |-> TRUE, value |-> FALSE]
  ELSE IF file.size > maxSizeMb * 1024 * 1024
  THEN [rejected |-> FALSE, value |-> TRUE]
  ELSE IF file.read = "throws" THEN [rejected |-> FALSE, value |-> TRUE]
  ELSE [rejected |-> FALSE,
        value |-> pdfParse(file).numpages > maxPagesPerChunk]

\* EnhancedPDFLoader.load(): the documents of the file (with a warning when
\* the gate asked for splitting), the placeholder document of the catch
\* block, or a rejection: "return super.load()" hands the promise on without
\* awaiting it, so its rejection is not caught by the try block around it.
EnhancedPDFLoader_load(file) ==
  LET needsSplitting == shouldSplitPdf(file)
  IN IF needsSplitting.rejected
     THEN [needsSplitting |-> needsSplitting, outcome |-> "placeholder",
           warning |-> FALSE]
     ELSE IF needsSplitting.value
     THEN [needsSplitting |-> needsSplitting,
           outcome |-> IF file.load = "rejects" THEN "placeholder"
                       ELSE "documents",
           warning |-> file.load # "rejects"]
     ELSE [needsSplitting |-> needsSplitting,
           outcome |-> IF file.load = "rejects" THEN "rejected"
                       ELSE "documents",
           warning |-> FALSE]

LoadIdle ==
  /\ lPc = "off"
  /\ lIn = PdfFile("ok", 1, "ok", "ok", 1, "ok")
  /\ lOut = EnhancedPDFLoader_load(lIn)

\* One call of load() of the loader the directory loader made for a file.
LoadPdf ==
  /\ lPc = "input"
  /\ lOut' = EnhancedPDFLoader_load(lIn)
  /\ lPc' = "settled"
  /\ UNCHANGED <<lIn, seedVars, mergeVars, queryVars, extractVars>>

\* ------------------------------------------------- the retrieval tools
MaxResults == 2
MaxFilters == 2

\* The exact-match filters a caller may put in a request.
FilterFields == {"project", "discipline", "drawingNumber", "drawingType",
                 "phase", "source", "buildingArea"}

\* Results of a similarity query: the metadata payload of a stored document.
\* metadata: the result carries a metadata object; page 0: no page stored;
\* distance (hundredths) stands for the _distance column, hasDistance for
\* metadata.hasOwnProperty('_distance').
DrawingA ==
  [source |-> "/in/Drawings/S-46-1001.pdf", project |-> "Lift Station",
   discipline |-> "Structural", drawingNumber |-> "S-46-1001",
   drawingType |-> Absent, phase |-> "Construction Documents",
   buildingArea |-> "46", imagePath |-> "/img/S-46-1001_p1.png",
   page |-> 2, hasDistance |-> TRUE, distance |-> 25, metadata |-> TRUE]
DrawingB ==
  [source |-> "/in/Drawings/S-50-150.pdf", project |-> "PDFdrawings",
   discipline |-> "Structural", drawingNumber |-> "S-50-150",
   drawingType |-> "Plans", phase |-> Absent,
   buildingArea |-> "50", imagePath |-> "/img/S-50-150_p1.png",
   page |-> 0, hasDistance |-> TRUE, distance |-> 40, metadata |-> TRUE]
SpecDoc ==
  [source |-> "/in/TextDocs/Division 03 - Concrete.pdf", project |-> "PDFdrawings",
   discipline |-> "Architectural", drawingNumber |-> "Division 03 - Concrete",
   drawingType |-> Absent, phase |-> Absent,
   buildingArea |-> Absent, imagePath |-> Absent,
   page |-> 0, hasDistance |-> FALSE, distance |-> 0, metadata |-> TRUE]
\* A chunk whose source has no catalog record: source and loc only.
BareChunk ==
  [source |-> "/in/Drawings/S-50-150.pdf", project |-> Absent,
   discipline |-> Absent, drawingNumber |-> Absent,
   drawingType |-> Absent, phase |-> Absent,
   buildingArea |-> Absent, imagePath |-> Absent,
   page |-> 0, hasDistance |-> FALSE, distance |-> 0, metadata |-> TRUE]
Corpus == {DrawingA, DrawingB, SpecDoc, BareChunk}

\* !result.metadata is false.
HasMetadata(r) == r["metadata"]

\* What retriever.invoke may return: up to MaxResults distinct records, in
\* any order.  (A langchain Document always carries a metadata object.)
ResultSeqs ==
  UNION {{q \in [1..n -> Corpus] : \A i, j \in 1..n : q[i] = q[j] => i = j}
         : n \in 0..MaxResults}

\* Values a caller may give filter f: the empty string, and every value some
\* record holds for f.
ValsOf(f) == {""} \cup ({r[f] : r \in Corpus} \ {Absent})
AllVals == UNION {ValsOf(f) : f \in FilterFields}

\* The params objects: at most MaxFilters filter keys are present.
ParamsOn(S) ==
  {[f \in FilterFields |-> IF f \in S THEN v[f] ELSE Absent]
     : v \in {w \in [S -> AllVals] : \A f \in S : w[f] \in ValsOf(f)}}
ParamSpace ==
  UNION {ParamsOn(S) : S \in {T \in SUBSET FilterFields : Cardinality(T) <= MaxFilters}}
NoParams == [f \in FilterFields |-> Absent]

\* BaseTool.handleError(error): the error-flagged response.
handleError ==
  [settled |-> "resolved", isError |-> TRUE, text |-> "error",
   results |-> <<>>, formatted |-> <<>>, caught |-> TRUE]

\* Mutant: an empty list is flagged as an error.
JsonResponse_EmptyIsError(rs) ==
  [settled |-> "resolved", isError |-> (rs = <<>>), text |-> "json",
   results |-> rs, formatted |-> <<>>, caught |-> FALSE]

\* {content: [{type: "text", text: JSON.stringify(rs)}], isError: false}
JsonResponse(rs) ==
  [settled |-> "resolved", isError |-> FALSE, text |-> "json",
   results |-> rs, formatted |-> <<>>, caught |-> FALSE]

\* An exception that leaves execute: the promise rejects.
Rejected ==
  [settled |-> "rejected", isError |-> FALSE, text |-> "exception",
   results |-> <<>>, formatted |-> <<>>, caught |-> FALSE]

NoResponse ==
  [settled |-> "pending", isError |-> FALSE, text |-> "",
   results |-> <<>>, formatted |-> <<>>, caught |-> FALSE]

\* The filter params each execute reads.
CatalogFieldsRead == {"project", "discipline", "drawingNumber", "drawingType", "phase"}
ChunksFieldsRead == {"source", "project", "discipline", "drawingNumber",
                     "drawingType", "phase"}
BroadFieldsRead == {"project", "discipline", "drawingType", "phase"}
ImageFieldsRead == {"source", "project", "discipline", "drawingType"}

\* ---- catalog_search
\* Mutant: the discipline line of the filter callback is missing.
catalogFilter_NoDiscipline(params, r) ==
  /\ HasMetadata(r)
  /\ Truthy(params["project"]) => r["project"] = params["project"]
  /\ Truthy(params["drawingNumber"]) => r["drawingNumber"] = params["drawingNumber"]
  /\ Truthy(params["drawingType"]) => r["drawingType"] = params["drawingType"]
  /\ Truthy(params["phase"]) => r["phase"] = params["phase"]

\* The callback of results.filter in CatalogSearchTool.execute.
catalogFilter(params, r) ==
  /\ HasMetadata(r)
  /\ Truthy(params["project"]) => r["project"] = params["project"]
  /\ Truthy(params["discipline"]) => r["discipline"] = params["discipline"]
  /\ Truthy(params["drawingNumber"]) => r["drawingNumber"] = params["drawingNumber"]
  /\ Truthy(params["drawingType"]) => r["drawingType"] = params["drawingType"]
  /\ Truthy(params["phase"]) => r["phase"] = params["phase"]

\* Mutant: no try/catch around the body.
catalogExecute_NoCatch(params, results, throws) ==
  IF throws THEN Rejected
  ELSE IF \E f \in CatalogFieldsRead : Truthy(params[f])
       THEN JsonResponse(SelectSeq(results, LAMBDA r : catalogFilter(params, r)))
       ELSE JsonResponse(results)

\* CatalogSearchTool.execute; throws: retriever.invoke (embedding, similarity
\* query) throws.
catalogExecute(params, results, throws) ==
  IF throws THEN handleError
  ELSE IF \E f \in CatalogFieldsRead : Truthy(params[f])
       THEN JsonResponse(SelectSeq(results, LAMBDA r : catalogFilter(params, r)))
       ELSE JsonResponse(results)

\* ---- chunks_search
\* Mutant: the fields are compared without testing that the filter is given.
chunksFilter_Unguarded(params, r) ==
  /\ HasMetadata(r)
  /\ \A f \in ChunksFieldsRead : r[f] = params[f]

\* The callback of results.filter in ChunksSearchTool.execute.
chunksFilter(params, r) ==
  /\ HasMetadata(r)
  /\ Truthy(params["source"]) => r["source"] = params["source"]
  /\ Truthy(params["project"]) => r["project"] = params["project"]
  /\ Truthy(params["discipline"]) => r["discipline"] = params["discipline"]
  /\ Truthy(params["drawingNumber"]) => r["drawingNumber"] = params["drawingNumber"]
  /\ Truthy(params["drawingType"]) => r["drawingType"] = params["drawingType"]
  /\ Truthy(params["phase"]) => r["phase"] = params["phase"]

\* ChunksSearchTool.execute: the filter is applied whatever the params are.
chunksExecute(params, results, throws) ==
  IF throws THEN handleError
  ELSE JsonResponse(SelectSeq(results, LAMBDA r : chunksFilter(params, r)))

\* ---- all_chunks_search
\* The callback of results.filter in BroadSearchTool.execute.
broadFilter(params, r) ==
  /\ HasMetadata(r)
  /\ Truthy(params["project"]) => r["project"] = params["project"]
  /\ Truthy(params["discipline"]) => r["discipline"] = params["discipline"]
  /\ Truthy(params["drawingType"]) => r["drawingType"] = params["drawingType"]
  /\ Truthy(params["phase"]) => r["phase"] = params["phase"]

\* BroadSearchTool.execute
broadExecute(params, results, throws) ==
  IF throws THEN handleError
  ELSE IF \E f \in BroadFieldsRead : Truthy(params[f])
       THEN JsonResponse(SelectSeq(results, LAMBDA r : broadFilter(params, r)))
       ELSE JsonResponse(results)

\* ---- image_search
\* The callback of results.filter in ImageSearchTool.execute.
imageFilter(params, r) ==
  /\ HasMetadata(r)
  /\ Truthy(params["source"]) => r["source"] = params["source"]
  /\ Truthy(params["project"]) => r["project"] = params["project"]
  /\ Truthy(params["discipline"]) => r["discipline"] = params["discipline"]
  /\ Truthy(params["drawingType"]) => r["drawingType"] = params["drawingType"]

\* The callback of filteredResults.map: page defaults to 1, similarity is
\* 1 - _distance (hundredths here), or 'N/A' (hasSimilarity FALSE).
formatResult(r) ==
  [imagePath |-> r["imagePath"], source |-> r["source"],
   page |-> IF r["page"] = 0 THEN 1 ELSE r["page"],
   project |-> r["project"], discipline |-> r["discipline"],
   drawingNumber |-> r["drawingNumber"], drawingType |-> r["drawingType"],
   hasSimilarity |-> r["hasDistance"],
   similarity |-> IF r["hasDistance"] THEN 100 - r["distance"] ELSE 0]

ImageThrowPoints == {"none", "embed", "query"}

\* The body of ImageSearchTool.execute once the store is known to be set.
imageSearchBody(params, results, throwsAt) ==
  IF throwsAt = "embed"
  THEN [resp |-> handleError, embedCalls |-> 1, queryCalls |-> 0]
  ELSE IF throwsAt = "query"
  THEN [resp |-> handleError, embedCalls |-> 1, queryCalls |-> 1]
  ELSE LET filteredResults == SelectSeq(results, LAMBDA r : imageFilter(params, r))
           formattedResults == [i \in DOMAIN filteredResults |->
                                  formatResult(filteredResults[i])]
       IN [resp |-> [settled |-> "resolved", isError |-> FALSE,
                     text |-> IF formattedResults = <<>> THEN "no-match" ELSE "json",
                     results |-> filteredResults, formatted |-> formattedResults,
                     caught |-> FALSE],
           embedCalls |-> 1, queryCalls |-> 1]

\* Mutant: the availability guard is missing; asRetriever() on the unset
\* handle throws after the query was embedded.
imageExecute_NoGuard(store, params, results, throwsAt) ==
  IF ~store
  THEN IF throwsAt = "embed"
       THEN [resp |-> handleError, embedCalls |-> 1, queryCalls |-> 0]
       ELSE [resp |-> handleError, embedCalls |-> 1, queryCalls |-> 0]
  ELSE imageSearchBody(params, results, throwsAt)

\* ImageSearchTool.execute; store: imageVectorStore is set.
imageExecute(store, params, results, throwsAt) ==
  IF ~store
  THEN [resp |-> [settled |-> "resolved", isError |-> TRUE, text |-> "unavailable",
                  results |-> <<>>, formatted |-> <<>>, caught |-> FALSE],
        embedCalls |-> 0, queryCalls |-> 0]
  ELSE imageSearchBody(params, results, throwsAt)

\* ---- concurrent requests
\* The calls of execute that can be in flight at once.
CallIds == {1, 2}

\* A call of execute: the tool, its params argument and its local variables.
\* stage: idle, embed (awaiting embedQuery), query (awaiting
\* retriever.invoke), settled; overlap: another call was in flight during
\* this one.
NoCall ==
  [stage |-> "idle", tool |-> "none", params |-> NoParams, results |-> <<>>,
   throwsAt |-> "none", resp |-> NoResponse, overlap |-> FALSE]

\* execute of the tool named tool, run to its end on its own.
execute(tool, store, params, results, throwsAt) ==
  CASE tool = "catalog_search" -> catalogExecute(params, results, throwsAt = "query")
    [] tool = "chunks_search" -> chunksExecute(params, results, throwsAt = "query")
    [] tool = "all_chunks_search" -> broadExecute(params, results, throwsAt = "query")
    [] tool = "image_search" -> imageExecute(store, params, results, throwsAt).resp

\* Mutant: params is kept in a variable of the module, which the call that
\* started first still owns.
localsOf_Shared(cs, c) ==
  cs[CHOOSE d \in CallIds :
       /\ cs[d].stage # "idle"
       /\ \A e \in CallIds : cs[e].stage # "idle" => d <= e]

\* What call c reads after an await: params and the variables declared in
\* execute belong to the call.
localsOf(cs, c) == cs[c]

NoRequest == [tool |-> "none", params |-> NoParams, throws |-> "none"]

\* openable: whether lancedb.connect and each of the three openTable calls
\* of connectToLanceDB would succeed.
QueryIdle ==
  /\ qpc = "off"
  /\ openable = [t \in {"db", "chunks", "catalog", "image"} |-> FALSE]
  /\ chunksVectorStore = FALSE
  /\ catalogVectorStore = FALSE
  /\ imageVectorStore = FALSE
  /\ req = NoRequest
  /\ simResults = <<>>
  /\ resp = NoResponse
  /\ embedCalls = 0
  /\ queryCalls = 0
  /\ calls = [c \in CallIds |-> NoCall]

\* Mutant: a missing image table is fatal as well.
connectToLanceDB_ImageFatal(o) ==
  IF ~o["db"] \/ ~o["chunks"]
  THEN [rejected |-> TRUE, chunks |-> FALSE, catalog |-> FALSE, image |-> FALSE]
  ELSE IF ~o["catalog"] \/ ~o["image"]
  THEN [rejected |-> TRUE, chunks |-> TRUE, catalog |-> o["catalog"], image |-> FALSE]
  ELSE [rejected |-> FALSE, chunks |-> TRUE, catalog |-> TRUE, image |-> TRUE]

\* connectToLanceDB: a failing connect, a missing chunks table or a missing
\* catalog table rethrows; a missing image table only leaves
\* imageVectorStore unset.  The result tells which handles were set.
connectToLanceDB(o) ==
  IF ~o["db"] \/ ~o["chunks"]
  THEN [rejected |-> TRUE, chunks |-> FALSE, catalog |-> FALSE, image |-> FALSE]
  ELSE IF ~o["catalog"]
  THEN [rejected |-> TRUE, chunks |-> TRUE, catalog |-> FALSE, image |-> FALSE]
  ELSE [rejected |-> FALSE, chunks |-> TRUE, catalog |-> TRUE, image |-> o["image"]]

\* The server connects at start-up.
ConnectToLanceDB ==
  /\ qpc = "start"
  /\ LET r == connectToLanceDB(openable)
     IN /\ qpc' = IF r.rejected THEN "failed" ELSE "ready"
        /\ chunksVectorStore' = r.chunks
        /\ catalogVectorStore' = r.catalog
        /\ imageVectorStore' = r.image
  /\ UNCHANGED <<openable, req, simResults, resp, embedCalls, queryCalls, calls,
                 seedVars, mergeVars, extractVars, loadVars>>

\* A catalog_search request is served.
CatalogSearch ==
  /\ qpc = "ready"
  /\ \E params \in ParamSpace, results \in ResultSeqs, throws \in BOOLEAN :
       /\ throws => results = <<>>
       /\ req' = [tool |-> "catalog_search", params |-> params,
                  throws |-> IF throws THEN "query" ELSE "none"]
       /\ simResults' = results
       /\ resp' = catalogExecute(params, results, throws)
  /\ embedCalls' = 0
  /\ queryCalls' = 1
  /\ qpc' = "responded"
  /\ UNCHANGED <<openable, chunksVectorStore, catalogVectorStore,
                 imageVectorStore, calls, seedVars, mergeVars, extractVars,
                 loadVars>>

\* A chunks_search request is served.
ChunksSearch ==
  /\ qpc = "ready"
  /\ \E params \in ParamSpace, results \in ResultSeqs, throws \in BOOLEAN :
       /\ throws => results = <<>>
       /\ req' = [tool |-> "chunks_search", params |-> params,
                  throws |-> IF throws THEN "query" ELSE "none"]
       /\ simResults' = results
       /\ resp' = chunksExecute(params, results, throws)
  /\ embedCalls' = 0
  /\ queryCalls' = 1
  /\ qpc' = "responded"
  /\ UNCHANGED <<openable, chunksVectorStore, catalogVectorStore,
                 imageVectorStore, calls, seedVars, mergeVars, extractVars,
                 loadVars>>

\* An all_chunks_search request is served.
BroadSearch ==
  /\ qpc = "ready"
  /\ \E params \in ParamSpace, results \in ResultSeqs, throws \in BOOLEAN :
       /\ throws => results = <<>>
       /\ req' = [tool |-> "all_chunks_search", params |-> params,
                  throws |-> IF throws THEN "query" ELSE "none"]
       /\ simResults' = results
       /\ resp' = broadExecute(params, results, throws)
  /\ embedCalls' = 0
  /\ queryCalls' = 1
  /\ qpc' = "responded"
  /\ UNCHANGED <<openable, chunksVectorStore, catalogVectorStore,
                 imageVectorStore, calls, seedVars, mergeVars, extractVars,
                 loadVars>>

\* An image_search request is served.
ImageSearch ==
  /\ qpc = "ready"
  /\ \E params \in ParamSpace, results \in ResultSeqs, throwsAt \in ImageThrowPoints :
       /\ (throwsAt # "none" \/ ~imageVectorStore) => results = <<>>
       /\ ~imageVectorStore => throwsAt = "none"
       /\ req' = [tool |-> "image_search", params |-> params, throws |-> throwsAt]
       /\ simResults' = results
       /\ LET out == imageExecute(imageVectorStore, params, results, throwsAt)
          IN /\ resp' = out.resp
             /\ embedCalls' = out.embedCalls
             /\ queryCalls' = out.queryCalls
  /\ qpc' = "responded"
  /\ UNCHANGED <<openable, chunksVectorStore, catalogVectorStore,
                 imageVectorStore, calls, seedVars, mergeVars, extractVars,
                 loadVars>>

\* The response has been sent; the server takes the next request.
AwaitRequest ==
  /\ qpc = "responded"
  /\ qpc' = "ready"
  /\ req' = NoRequest
  /\ simResults' = <<>>
  /\ resp' = NoResponse
  /\ embedCalls' = 0
  /\ queryCalls' = 0
  /\ UNCHANGED <<openable, chunksVectorStore, catalogVectorStore,
                 imageVectorStore, calls, seedVars, mergeVars, extractVars,
                 loadVars>>

\* execute is called while other calls may be awaiting: it runs up to its
\* first await (image_search returns at once when its store is unset).
ExecuteCall ==
  /\ qpc = "ready"
  /\ \E c \in CallIds :
       /\ calls[c].stage = "idle"
       /\ \E tool \in {"catalog_search", "chunks_search", "all_chunks_search",
                       "image_search"},
             params \in {NoParams, [NoParams EXCEPT !["discipline"] = "Structural"],
                         [NoParams EXCEPT !["project"] = "Lift Station"]} :
            LET InFlight(d) == calls[d].stage \in {"embed", "query"}
                begun == [NoCall EXCEPT
                            !.tool = tool, !.params = params,
                            !.overlap = \E d \in CallIds : InFlight(d)]
            IN calls' =
                 [d \in CallIds |->
                    IF d # c
                    THEN [calls[d] EXCEPT !.overlap = @ \/ InFlight(d)]
                    ELSE IF tool = "image_search" /\ ~imageVectorStore
                    THEN [begun EXCEPT
                            !.stage = "settled",
                            !.resp = execute(tool, imageVectorStore, params,
                                             <<>>, "none")]
                    ELSE [begun EXCEPT
                            !.stage = IF tool = "image_search" THEN "embed"
                                      ELSE "query"]]
  /\ UNCHANGED <<qpc, openable, chunksVectorStore, catalogVectorStore,
                 imageVectorStore, req, simResults, resp, embedCalls, queryCalls,
                 seedVars, mergeVars, extractVars, loadVars>>

\* embedQuery of an image_search call settles.
EmbedSettles ==
  /\ \E c \in CallIds, ok \in BOOLEAN :
       /\ calls[c].stage = "embed"
       /\ LET locals == localsOf(calls, c)
          IN calls' =
               [calls EXCEPT
                  ![c] = IF ok THEN [@ EXCEPT !.stage = "query"]
                         ELSE [@ EXCEPT
                                 !.stage = "settled", !.throwsAt = "embed",
                                 !.resp = execute(locals.tool, imageVectorStore,
                                                  locals.params, <<>>, "embed")]]
  /\ UNCHANGED <<qpc, openable, chunksVectorStore, catalogVectorStore,
                 imageVectorStore, req, simResults, resp, embedCalls, queryCalls,
                 seedVars, mergeVars, extractVars, loadVars>>

\* retriever.invoke of a call settles; the call filters what it got and
\* returns its response.
QuerySettles ==
  /\ \E c \in CallIds, ok \in BOOLEAN,
        results \in {<<>>, <<DrawingA, DrawingB>>, <<SpecDoc, DrawingA>>} :
       /\ calls[c].stage = "query"
       /\ ~ok => results = <<>>
       /\ LET locals == localsOf(calls, c)
              throwsAt == IF ok THEN "none" ELSE "query"
          IN calls' =
               [calls EXCEPT
                  ![c] = [@ EXCEPT
                            !.stage = "settled", !.results = results,
                            !.throwsAt = throwsAt,
                            !.resp = execute(locals.tool, imageVectorStore,
                                             locals.params, results, throwsAt)]]
  /\ UNCHANGED <<qpc, openable, chunksVectorStore, catalogVectorStore,
                 imageVectorStore, req, simResults, resp, embedCalls, queryCalls,
                 seedVars, mergeVars, extractVars, loadVars>>

\* The response of a call has been sent.
ResponseSent ==
  /\ \E c \in CallIds :
       /\ calls[c].stage = "settled"
       /\ calls' = [calls EXCEPT ![c] = NoCall]
  /\ UNCHANGED <<qpc, openable, chunksVectorStore, catalogVectorStore,
                 imageVectorStore, req, simResults, resp, embedCalls, queryCalls,
                 seedVars, mergeVars, extractVars, loadVars>>

Init ==
  /\ \E f \in [Paths -> Bytes \cup {NoFile}] : SeedInit(f)
  /\ MergeIdle
  /\ QueryIdle
  /\ ExtractIdle
  /\ LoadIdle

BetweenRuns == pc \in {"idle", "done", "aborted"}

\* ---------------------------------------------------------------- actions
\* The user changes, adds or removes a file between two runs.
EditFile ==
  /\ BetweenRuns
  /\ runs < MaxRuns
  /\ \E p \in Paths, b \in Bytes \cup {NoFile} :
       /\ fs[p] # b
       /\ fs' = [fs EXCEPT ![p] = b]
  /\ UNCHANGED <<catalogExists, catalog, chunksExists, chunks, pc, overwrite, reported,
                 skipExistsCheck, rawDocs, todo, skipSources, catalogRecords,
                 docs, tempDir, runs, failed, fsAtRun, fsAtPrevRun, prevPc>>
  /\ UNCHANGED <<mergeVars, queryVars, extractVars, loadVars>>

\* seed(), up to the call of processDocuments and its first statements:
\* open the tables, drop them under --overwrite, load the files, create the
\* temporary directory and group the documents by source.
SeedStart ==
  /\ BetweenRuns
  /\ runs < MaxRuns
  /\ \E ow \in BOOLEAN :
       /\ overwrite' = ow
       /\ catalogExists' = (catalogExists /\ ~ow)
       /\ chunksExists' = (chunksExists /\ ~ow)
       /\ catalog' = IF ow THEN <<>> ELSE catalog
       /\ chunks' = IF ow THEN <<>> ELSE chunks
       /\ skipExistsCheck' = (ow \/ ~catalogExists)
  /\ rawDocs' = LoadRawDocs(fs)
  /\ todo' = SourcesOf(LoadRawDocs(fs), {})
  /\ skipSources' = <<>>
  /\ catalogRecords' = <<>>
  /\ docs' = <<>>
  /\ failed' = {}
  /\ tempDir' = TRUE
  /\ runs' = runs + 1
  /\ fsAtPrevRun' = fsAtRun
  /\ fsAtRun' = fs
  /\ prevPc' = pc
  /\ reported' = [new |-> -1, skipped |-> -1]
  /\ pc' = "process"
  /\ UNCHANGED <<fs, mergeVars, queryVars, extractVars, loadVars>>

\* One iteration of the for loop of processDocuments: hash the file, look the
\* hash up, and either skip the source or stage its catalog record; whatever
\* throws is caught and the loop goes on.
ProcessSource ==
  /\ pc = "process"
  /\ todo # <<>>
  /\ LET s == Head(todo)
         exists == IF skipExistsCheck THEN FALSE
                   ELSE catalogRecordExists(catalog, Sha256Hex(fs[s]))
     IN \E fail \in FailModes :
          /\ (exists /\ fail # "hash") => fail = "none"
          /\ pc' = pcAfterSource(fail)
          /\ IF fail = "hash"
             THEN /\ failed' = failed \cup {s}
                  /\ skipSources' = skipSourcesAfterError(skipSources, s)
                  /\ UNCHANGED catalogRecords
             ELSE IF exists
             THEN /\ skipSources' = Append(skipSources, s)
                  /\ UNCHANGED <<catalogRecords, failed>>
             ELSE IF fail # "none"
             THEN /\ failed' = failed \cup {s}
                  /\ skipSources' = skipSourcesAfterError(skipSources, s)
                  /\ UNCHANGED catalogRecords
             ELSE /\ catalogRecords' = Append(catalogRecords, CatalogRecord(s, fs[s]))
                  /\ UNCHANGED <<skipSources, failed>>
  /\ todo' = Tail(todo)
  /\ UNCHANGED <<fs, catalogExists, catalog, chunksExists, chunks, overwrite, reported,
                 skipExistsCheck, rawDocs, docs, tempDir, runs, fsAtRun,
                 fsAtPrevRun, prevPc>>
  /\ UNCHANGED <<mergeVars, queryVars, extractVars, loadVars>>

\* processDocuments returns; seed creates or updates the catalog store and
\* logs the counts.
\* LanceDB.fromDocuments embeds and inserts the staged records (creating the
\* table when it is missing); a failing embedding or insert rejects seed().
CatalogStore ==
  /\ pc = "process"
  /\ todo = <<>>
  /\ \E ok \in BOOLEAN :
       IF catalogRecords = <<>>
       THEN /\ ok
            /\ pc' = "chunks"
            /\ reported' = reportCounts(catalogRecords, skipSources)
            /\ UNCHANGED <<catalogExists, catalog>>
       ELSE IF ok
       THEN /\ catalog' = fromDocuments(catalog, catalogRecords)
            /\ catalogExists' = TRUE
            /\ pc' = "chunks"
            /\ reported' = reportCounts(catalogRecords, skipSources)
       ELSE /\ pc' = "aborted"
            /\ UNCHANGED <<catalogExists, catalog, reported>>
  /\ UNCHANGED <<fs, chunksExists, chunks, overwrite, skipExistsCheck, rawDocs,
                 todo, skipSources, catalogRecords, docs, tempDir, runs, failed,
                 fsAtRun, fsAtPrevRun, prevPc>>
  /\ UNCHANGED <<mergeVars, queryVars, extractVars, loadVars>>

\* seed, from "Remove skipped sources from rawDocs" to the end: filter, split,
\* enhance, embed and insert the chunks, then remove the temporary directory.
ChunksStore ==
  /\ pc = "chunks"
  /\ LET ds == enhanceDocumentsWithMetadata(
                 splitDocuments(filteredRawDocs(rawDocs, skipSources)),
                 catalogRecords)
     IN /\ docs' = ds
        /\ \E ok \in BOOLEAN :
             IF ds = <<>>
             THEN /\ ok
                  /\ pc' = "done"
                  /\ tempDir' = FALSE
                  /\ UNCHANGED <<chunksExists, chunks>>
             ELSE IF ok
             THEN /\ chunks' = fromDocuments(chunks, ds)
                  /\ chunksExists' = TRUE
                  /\ pc' = "done"
                  /\ tempDir' = FALSE
             ELSE /\ pc' = "aborted"
                  /\ UNCHANGED <<chunksExists, chunks, tempDir>>
  /\ UNCHANGED <<fs, catalogExists, catalog, overwrite, skipExistsCheck, rawDocs,
                 todo, skipSources, catalogRecords, runs, failed, fsAtRun, reported,
                 fsAtPrevRun, prevPc>>
  /\ UNCHANGED <<mergeVars, queryVars, extractVars, loadVars>>

Next ==
  \/ EditFile
  \/ SeedStart
  \/ ProcessSource
  \/ CatalogStore
  \/ ChunksStore

Spec == Init /\ [][Next]_vars

\* seed() is one sequential async function: every awaited call settles, so
\* a run that can take its next step takes it.
SpecFair ==
  /\ Spec
  /\ WF_vars(ProcessSource)
  /\ WF_vars(CatalogStore)
  /\ WF_vars(ChunksStore)

\* --------------------------------------------------- the metadata merger
\* extractMetadata is about to be called: what the three extractors would
\* return for the file is fixed.
InitMerge ==
  /\ SeedInit([p \in Paths |-> NoFile])
  /\ QueryIdle
  /\ ExtractIdle
  /\ LoadIdle
  /\ mPc = "input"
  /\ mPathIn \in [MergeFields -> PathVals]
  /\ mContentIn \in [MergeFields -> ContentVals]
  /\ mAiIn \in [MergeFields -> AiVals]
  /\ mContent = EmptyMeta
  /\ mAi = EmptyMeta
  /\ mResult = EmptyMeta

NextMerge == ExtractMetadata

SpecMerge == InitMerge /\ [][NextMerge]_vars

\* ------------------------------------------------------ the query server
\* The server process has started and is about to connect.
InitQuery ==
  /\ SeedInit([p \in Paths |-> NoFile])
  /\ MergeIdle
  /\ ExtractIdle
  /\ LoadIdle
  /\ qpc = "start"
  /\ openable \in [{"db", "chunks", "catalog", "image"} -> BOOLEAN]
  /\ chunksVectorStore = FALSE
  /\ catalogVectorStore = FALSE
  /\ imageVectorStore = FALSE
  /\ req = NoRequest
  /\ simResults = <<>>
  /\ resp = NoResponse
  /\ embedCalls = 0
  /\ queryCalls = 0
  /\ calls = [c \in CallIds |-> NoCall]

NextQuery ==
  \/ ConnectToLanceDB
  \/ CatalogSearch
  \/ ChunksSearch
  \/ BroadSearch
  \/ ImageSearch
  \/ AwaitRequest

SpecQuery == InitQuery /\ [][NextQuery]_vars

\* -------------------------------------------- the query server, concurrent
\* The server is about to connect; it then serves calls that overlap.
NextServe ==
  \/ ConnectToLanceDB
  \/ ExecuteCall
  \/ EmbedSettles
  \/ QuerySettles
  \/ ResponseSent

SpecServe == InitQuery /\ [][NextServe]_vars

\* -------------------------------------------------- the metadata extractors
\* extractMetadata is about to be called on a file, with the text of its
\* pages and a model that will answer in some way.
InitExtract ==
  /\ SeedInit([p \in Paths |-> NoFile])
  /\ MergeIdle
  /\ QueryIdle
  /\ xPc = "input"
  /\ xIn \in ExtractInputs
  /\ xOut = NoOutput
  /\ LoadIdle

NextExtract == ExtractFile

SpecExtract == InitExtract /\ [][NextExtract]_vars

\* ------------------------------------------------------- the PDF loader
\* The directory loader is about to call load() on the loader of a file.
InitLoad ==
  /\ SeedInit([p \in Paths |-> NoFile])
  /\ MergeIdle
  /\ QueryIdle
  /\ ExtractIdle
  /\ lPc = "input"
  /\ lIn \in PdfFiles
  /\ lOut = EnhancedPDFLoader_load(PdfFile("ok", 1, "ok", "ok", 1, "ok"))

NextLoad == LoadPdf

SpecLoad == InitLoad /\ [][NextLoad]_vars

\* ================================================================ claims
SourcesStaged == {catalogRecords[i].source : i \in DOMAIN catalogRecords}
DocsOf(ds, s) == SelectSeq(ds, LAMBDA d : d.source = s)
FieldsReadBy(tool) ==
  CASE tool = "catalog_search" -> CatalogFieldsRead
    [] tool = "chunks_search" -> ChunksFieldsRead
    [] tool = "all_chunks_search" -> BroadFieldsRead
    [] tool = "image_search" -> ImageFieldsRead
    [] OTHER -> {}
SuppliedFilters == {f \in FilterFields : Truthy(req.params[f])}

\* C1 (as stated): a run without --overwrite that follows a completed run
\* over a file set with the same bytes stages no catalog record and embeds
\* no chunk.
C1_Idempotence ==
  (pc = "done" /\ runs >= 2 /\ ~overwrite /\ prevPc = "done"
     /\ fsAtPrevRun = fsAtRun)
  => (catalogRecords = <<>> /\ docs = <<>>)

\* C2 (as stated): the catalog table never holds two records with the same
\* content hash.
C2_OneRecordPerHash ==
  \A i, j \in DOMAIN catalog : catalog[i].hash = catalog[j].hash => i = j

\* C3: no chunk handed to the embedding/insert step of a run belongs to a
\* source that the run put in the skip set.
C3_SkippedNotEmbedded ==
  \A i \in DOMAIN docs : docs[i].source \notin Range(skipSources)

C3_Witness ==
  /\ pc = "done"
  /\ skipSources # <<>>
  /\ docs # <<>>
  /\ \E s \in Range(skipSources) : DocsOf(rawDocs, s) # <<>>

\* C4: every field of the record extractMetadata returns is the AI value if
\* truthy, else the path value if truthy, else the content value if truthy,
\* else absent.
C4_MergePriority ==
  mPc = "merged" =>
    \A k \in MergeFields :
      mResult[k] = IF Truthy(mAi[k]) THEN mAi[k]
                   ELSE IF Truthy(mPathIn[k]) THEN mPathIn[k]
                   ELSE IF Truthy(mContent[k]) THEN mContent[k]
                   ELSE Absent

C4_Witness ==
  /\ mPc = "merged"
  /\ mAi["discipline"] = ""
  /\ mPathIn["discipline"] = "Structural"
  /\ mContent["discipline"] = "General"
  /\ mResult["discipline"] = "Structural"
  /\ mAi["project"] = "Electrical"
  /\ mPathIn["project"] = "Structural"
  /\ mResult["project"] = "Electrical"

\* C5: every result a retrieval tool returns equals the supplied value on
\* every filter the caller supplied (a non-empty string) among the filters
\* the tool reads; a result lacking such a field is not returned.
C5_FilterConjunction ==
  (qpc = "responded" /\ resp.settled = "resolved") =>
    \A f \in SuppliedFilters \cap FieldsReadBy(req.tool) :
      /\ \A i \in DOMAIN resp.results : resp.results[i][f] = req.params[f]
      /\ \A i \in DOMAIN resp.formatted :
           f \in {"source", "project", "discipline", "drawingType"}
             => resp.formatted[i][f] = req.params[f]

C5_Witness ==
  /\ qpc = "responded"
  /\ Cardinality(SuppliedFilters \cap FieldsReadBy(req.tool)) = 2
  /\ Len(simResults) = 2
  /\ Len(resp.results) = 1
  /\ \E i \in DOMAIN simResults, f \in SuppliedFilters : simResults[i][f] = Absent

\* C6: with no filter in the request, chunks_search, catalog_search and
\* all_chunks_search return the retriever's results, same records in the
\* same order.
C6_ZeroFilters ==
  (qpc = "responded" /\ req.params = NoParams /\ req.throws = "none"
     /\ req.tool \in {"chunks_search", "catalog_search", "all_chunks_search"})
  => (resp.results = simResults /\ ~resp.isError)

C6_Witness ==
  /\ qpc = "responded"
  /\ req.tool = "chunks_search"
  /\ req.params = NoParams
  /\ simResults = <<BareChunk, DrawingA>>
  /\ resp.results = simResults

\* C7 (as stated): whichever of the seven exact-match filters a caller
\* supplies to a retrieval tool, no returned record differs on that field.
C7_EverySuppliedFilterApplied ==
  qpc = "responded" =>
    \A f \in SuppliedFilters, i \in DOMAIN resp.results :
      resp.results[i][f] = req.params[f]

\* C8: image_search on a server whose image store was never set answers
\* with an error-flagged guidance text, makes no embedding and no
\* similarity call, and does not throw.
C8_ImageUnavailable ==
  (qpc = "responded" /\ req.tool = "image_search" /\ ~imageVectorStore)
  => /\ resp.settled = "resolved"
     /\ resp.isError
     /\ resp.text = "unavailable"
     /\ embedCalls = 0
     /\ queryCalls = 0

C8_Witness ==
  /\ qpc = "responded"
  /\ req.tool = "image_search"
  /\ ~imageVectorStore
  /\ catalogVectorStore
  /\ resp.text = "unavailable"

\* C9: execute always resolves, and when the retriever or the embedding
\* call threw it resolves with an error-flagged response.
C9_NoThrowPastBoundary ==
  qpc = "responded" =>
    /\ resp.settled = "resolved"
    /\ req.throws # "none" => resp.isError

C9_Witness ==
  /\ qpc = "responded"
  /\ req.tool = "catalog_search"
  /\ req.throws = "query"
  /\ resp.caught
  /\ resp.isError

\* C10: a source whose loop body threw has no staged catalog record and is
\* not in the skip set; every source of the run is visited all the same; and
\* the chunks of the failed source are embedded with source and loc only.
C10_FailurePolicy ==
  /\ \A s \in failed : s \notin Range(skipSources) /\ s \notin SourcesStaged
  /\ pc \in {"chunks", "done"} =>
       failed \cup Range(skipSources) \cup SourcesStaged
         = Range(SourcesOf(rawDocs, {}))
  /\ pc = "done" =>
       \A s \in failed : DocsOf(docs, s) = splitDocuments(DocsOf(rawDocs, s))

C10_Witness ==
  /\ pc = "done"
  /\ PathOrder[1] \in failed
  /\ PathOrder[2] \in SourcesStaged
  /\ DocsOf(docs, PathOrder[1]) # <<>>


\* C11 (as stated): indexing /in/Drawings/S-46-1001.pdf whose text is
\* "PROJECT: Lift Station\nPHASE: Construction Documents", the model adding
\* no field, gives metadata with discipline Structural, buildingArea 46,
\* project Lift Station and phase Construction Documents.
C11_LiftStationRecord ==
  (/\ xPc = "returned"
   /\ xIn.path = DrawingPath(S_46_1001)
   /\ xIn.text = C11Text
   /\ xOut.aiMetadata = EmptyObject)
  => /\ xOut.mergedMetadata["discipline"] = Name("Structural")
     /\ xOut.mergedMetadata["buildingArea"] = Str(<<"4", "6">>)
     /\ xOut.mergedMetadata["project"] = Str(<<"Lift", " ", "Station">>)
     /\ xOut.mergedMetadata["phase"] = Str(<<"Construction", " ", "Documents">>)

\* C12: for a drawing named <code>-<area>-<sheet>, the path extractor takes
\* discipline from the code letter's table (no entry: unset), buildingArea
\* from the second segment, sheetNumber from the third, and drawingType from
\* the band the leading integer of the sheet falls in (1-99 General, 100-199
\* Plans, 200-299 Elevations, 300-399 Sections, 400-499 Details, 500-599
\* Schedules, 600-699 Diagrams), or leaves it unset outside every band.
C12_DrawingNumberDecoding ==
  (xPc = "returned" /\ xIn.name # NoName) =>
    LET n == xIn.name
        m == xOut.pathMetadata
        code == toUpperCase(n.code)
        table == [S |-> Name("Structural"), C |-> Name("Civil"),
                  A |-> Name("Architectural"), M |-> Name("Mechanical"),
                  E |-> Name("Electrical"), P |-> Name("Plumbing"),
                  L |-> Name("Landscape"), G |-> Name("General"),
                  D |-> Name("Demolition"),
                  F |-> Str(<<"Fire", " ", "Protection">>),
                  T |-> Name("Telecommunications"), I |-> Name("Interiors")]
        bands == <<"General", "Plans", "Elevations", "Sections", "Details",
                   "Schedules", "Diagrams">>
        lead == parseInt(n.sheet)
    IN /\ m["discipline"] = IF code \in DOMAIN table THEN table[code] ELSE Undefined
       /\ m["buildingArea"] = Str(n.area)
       /\ m["sheetNumber"] = Str(n.sheet)
       /\ m["drawingType"] =
            IF lead >= 1 /\ lead <= 699
            THEN Name(bands[(lead \div 100) + 1]) ELSE Undefined

C12_Witness ==
  /\ xPc = "returned"
  /\ xIn.name = DrawingName("S", <<"4", "6">>, <<"7", "0", "0">>)
  /\ xOut.pathMetadata["sheetNumber"] = Str(<<"7", "0", "0">>)
  /\ xOut.pathMetadata["drawingType"] = Undefined

\* C13: connectToLanceDB rejects when the chunks or the catalog table cannot
\* be opened; when only the image table is missing it resolves with the
\* chunks and catalog stores set and the image store alone unset.
C13_ConnectOutcome ==
  /\ (qpc # "off" /\ qpc # "start" /\ ~(openable["chunks"] /\ openable["catalog"]))
       => qpc = "failed"
  /\ (qpc # "off" /\ qpc # "start" /\ openable["db"] /\ openable["chunks"]
        /\ openable["catalog"])
       => /\ qpc # "failed"
          /\ chunksVectorStore
          /\ catalogVectorStore
          /\ imageVectorStore = openable["image"]

C13_Witness ==
  /\ qpc = "ready"
  /\ ~openable["image"]
  /\ chunksVectorStore
  /\ catalogVectorStore
  /\ ~imageVectorStore

C15_EmptyResultNotError ==
  (/\ qpc = "responded"
   /\ req.throws = "none"
   /\ req.tool = "image_search" => imageVectorStore
   /\ resp.results = <<>>)
  => resp.settled = "resolved" /\ ~resp.isError

C15_Witness ==
  /\ qpc = "responded"
  /\ req.tool = "image_search"
  /\ simResults # <<>>
  /\ resp.results = <<>>
  /\ resp.text = "no-match"
  /\ ~resp.isError

\* C16: of the chunks of a run, one whose source has a staged record holds
\* that record's metadata and its own loc; any other holds exactly the
\* source and loc it was split with.
C16_EnhancerFrame ==
  pc = "done" =>
    LET original == splitDocuments(filteredRawDocs(rawDocs, skipSources))
    IN /\ Len(docs) = Len(original)
       /\ \A i \in DOMAIN docs :
            IF original[i].source \in SourcesStaged
            THEN \E j \in DOMAIN catalogRecords :
                   /\ catalogRecords[j].source = original[i].source
                   /\ docs[i] = [source |-> catalogRecords[j].source,
                                 hash |-> catalogRecords[j].hash,
                                 meta |-> catalogRecords[j].meta,
                                 loc |-> original[i].loc]
            ELSE docs[i] = original[i]

C16_Witness ==
  /\ pc = "done"
  /\ \E i, j \in DOMAIN docs :
       /\ docs[i].source \in SourcesStaged
       /\ docs[i].loc.page = 2
       /\ docs[j].source \notin SourcesStaged
       /\ DOMAIN docs[j] = {"source", "loc"}

\* C17 (as stated): every field of the metadata extractMetadata returns is
\* a non-empty string without leading or trailing white space.
C17_FieldsTrimmedStrings ==
  xPc = "returned" =>
    \A k \in Fields :
      LET v == xOut.mergedMetadata[k]
      IN v # Undefined => v.t = "string" /\ v.s # <<>> /\ trim(v.s) = v.s

\* C18: when the model's answer is not JSON, or the model call or the read
\* of the PDF throws, extractMetadata returns, its AI metadata is empty and
\* its result is the merge of the content and the path metadata.
C18_AiFailSoft ==
  (xPc \in {"returned", "threw"} /\ xIn.ai \in {ReadThrows, CallThrows, NotJson})
  => /\ xPc = "returned"
     /\ xOut.aiMetadata = EmptyObject
     /\ xOut.mergedMetadata
          = mergeSources(<<xOut.contentMetadata, xOut.pathMetadata>>)

C18_Witness ==
  /\ xPc = "returned"
  /\ xIn.ai = NotJson
  /\ xIn.path = DrawingPath(S_46_1001)
  /\ xOut.aiMetadata = EmptyObject
  /\ xOut.mergedMetadata["phase"] = Str(<<"Construction", " ", "Documents">>)
  /\ xOut.mergedMetadata["buildingArea"] = Str(<<"4", "6">>)

\* C19 (as stated): a text with a line "PROJECT: X", "PROJECT NAME: X",
\* "PROJ TITLE: X" or "PROJECT TITLE: X" gives project the trimmed X.
C19_ProjectFromLabel ==
  (xPc = "returned" /\ xIn.text.kind = "project")
  => xOut.contentMetadata["project"] = Str(trim(xIn.text.value))

\* C20 (as stated): a text with "REV: T", "REVISION: T" or "REV. T" gives
\* revision the token T; a text without such a pattern leaves it unset.
C20_RevisionFromLabel ==
  /\ (xPc = "returned" /\ xIn.text.kind = "revision")
       => xOut.contentMetadata["revision"] = Str(xIn.text.value)
  /\ (xPc = "returned" /\ xIn.text.kind # "revision")
       => xOut.contentMetadata["revision"] = Undefined

\* C21 (as stated): a file under TextDocs named "Division <n> ..." is a
\* Specification whose discipline is Finishes for n = 9, Architectural for
\* the other n in 1..14, Mechanical for 21..23, Electrical for 25..28, Civil
\* for 31..35 and General otherwise.
C21_SpecificationDiscipline ==
  \A d1 \in Digit, d2 \in Digit :
    (xPc = "returned" /\ xIn.path = DivisionPath(d1, d2)) =>
      LET n == parseInt(<<d1, d2>>)
      IN /\ xOut.pathMetadata["documentType"] = Name("Specification")
         /\ xOut.pathMetadata["discipline"] =
              Name(IF n = 9 THEN "Finishes"
                   ELSE IF n \in 1..14 THEN "Architectural"
                   ELSE IF n \in 21..23 THEN "Mechanical"
                   ELSE IF n \in 25..28 THEN "Electrical"
                   ELSE IF n \in 31..35 THEN "Civil"
                   ELSE "General")

\* C22 (as stated): the path extractor gives the project "PDFdrawings"
\* unless a segment of the path that is "projects" or "project" in lower
\* case has a segment after it, and then the project is that next segment;
\* a segment "pdfdrawings-mcp" supplies no project.
C22_PathProjectRule ==
  xPc = "returned" =>
    LET segs ==
          split([i \in DOMAIN xIn.path |->
                   IF xIn.path[i] = "\\" THEN "/" ELSE xIn.path[i]], "/")
        folders == {i \in 1..(Len(segs) - 1) :
                      toLowerCase(segs[i]) \in {<<"projects">>, <<"project">>}}
    IN IF folders = {}
       THEN xOut.pathMetadata["project"] = Name("PDFdrawings")
       ELSE \E i \in folders : xOut.pathMetadata["project"] = Str(segs[i + 1])

\* C23 (as stated): when the content extractor finds a drawing number and
\* the model's answer has none, the drawing number of the merged metadata
\* is the one from the content, not the file name without its extension.
C23_ContentDrawingNumber ==
  (/\ xPc = "returned"
   /\ xOut.contentMetadata["drawingNumber"] # Undefined
   /\ xOut.aiMetadata.f["drawingNumber"] = Undefined)
  => xOut.mergedMetadata["drawingNumber"] = xOut.contentMetadata["drawingNumber"]

C25_OversizeGate ==
  lPc = "settled" =>
    LET oversize == \/ lIn.size > maxSizeMb * 1024 * 1024
                    \/ lIn.numpages > maxPagesPerChunk
        analyzable == /\ lIn.stat = "ok"
                      /\ lIn.read = "ok"
                      /\ lIn.parse = "ok"
    IN (~lOut.needsSplitting.rejected /\ lOut.needsSplitting.value)
         <=> (oversize \/ ~analyzable)

\* C26 (as stated): load() of the PDF loader never rejects, and when
\* PDFLoader.load() fails for the file it yields the placeholder document,
\* so that the run goes on to stage a record for the file.
C26_LoadFailureDegrades ==
  lPc = "settled" =>
    /\ lOut.outcome # "rejected"
    /\ lIn.load = "rejects" => lOut.outcome = "placeholder"

\* C27 (as stated): the _temp_processing directory exists while a run
\* processes its documents, and is gone when the run has ended, whether it
\* completed or was stopped by a rejected store call.
C27_TempDirLifecycle ==
  /\ pc \in {"process", "chunks"} => tempDir
  /\ pc \in {"done", "aborted"} => ~tempDir

C29_CatalogHasChunks ==
  (pc \in {"done", "aborted"} /\ ~overwrite) =>
    \A i \in DOMAIN catalog :
      \E j \in DOMAIN chunks :
        /\ chunks[j].source = catalog[i].source
        /\ "hash" \in DOMAIN chunks[j]
        /\ chunks[j].hash = catalog[i].hash

\* C30 (as stated): when the second run has completed without --overwrite,
\* a file that had the same bytes in both runs has each of its chunks at
\* most once in the chunks table.
C30_ChunksInsertedOnce ==
  (pc = "done" /\ runs = 2 /\ ~overwrite) =>
    \A s \in Paths :
      (fsAtRun[s] # NoFile /\ fsAtPrevRun[s] = fsAtRun[s]) =>
        \A i, j \in DOMAIN chunks :
          (chunks[i].source = s /\ chunks[j].source = s
             /\ chunks[i].loc = chunks[j].loc) => i = j

====
